---- MODULE Spec2Model ----
(***************************************************************************)
(* Model of f_2258 (src/data/raw/f_2258_junda_james.py): validation of a   *)
(* DataFrame followed by the rendering of a bar chart of sales by          *)
(* category.  One call of the function is followed statement by statement, *)
(* so that the order of lookups, log entries, rendering steps and the      *)
(* raise/return that ends the call can be stated.                          *)
(*                                                                         *)
(* A DataFrame is a record                                                 *)
(*    nrows   : the length of its index,                                   *)
(*    index   : the row labels, in row order,                              *)
(*    columns : a function from its column names to [kind, vals], kind     *)
(*              being dtype.kind and vals the cells in row order.          *)
(* Column names are unique (columns is a function).                        *)
(***************************************************************************)
EXTENDS Integers, Sequences, FiniteSets, TLC

\* ----- bounds of the model -----
MaxRows == 2
MaxVal == 2

\* ----- the universe the inputs are drawn from -----
ColumnNames == {"Category", "Sales"}
ArgNames == ColumnNames \cup {"NonexistentCategory"}
Values == 1..MaxVal

\* dtype.kind in 'biufc' (line 33)
NumericKindsNoBoolComplex == {"i", "u", "f"}
NumericKinds == {"b", "i", "u", "f", "c"}
\* the kinds a column can have: the numeric ones, object, datetime
Kinds == {"b", "i", "u", "f", "c", "O", "M"}

InvalidDataMsg == "DataFrame is empty, lacks sales data, or sales data is not numeric."
DuplicateMsg == "DataFrame contains duplicate entries in the category column."
ChartTitle == "Sales Report by Category"
YLabel == "Sales"

RangeIndex(n) == [i \in 1..n |-> i]

SeqsOfLen(S, n) == [1..n -> S]

Frames ==
  UNION { UNION { { [nrows |-> n, index |-> RangeIndex(n), columns |-> c] :
                    c \in [names -> [kind : Kinds, vals : SeqsOfLen(Values, n)]] } :
                  names \in SUBSET ColumnNames } :
          n \in 0..MaxRows }

\* ----- the DataFrame operations the function uses -----

\* df.empty: some axis has length 0
IsEmptyOffByOne(d) == d.nrows <= 1 \/ DOMAIN d.columns = {}
IsEmpty(d) == d.nrows = 0 \/ DOMAIN d.columns = {}

\* whether df[name] finds a column (otherwise it raises KeyError)
HasColumn(d, name) == name \in DOMAIN d.columns

\* Series.duplicated(): marks every occurrence after the first
Duplicated(vals) == [i \in 1..Len(vals) |-> \E j \in 1..(i-1) : vals[j] = vals[i]]

AnyOf(flags) == \E i \in 1..Len(flags) : flags[i]
AllOf(flags) == \A i \in 1..Len(flags) : flags[i]

\* df[category_col].duplicated().any()
HasDuplicatesAll(vals) == AllOf(Duplicated(vals))
HasDuplicates(vals) == AnyOf(Duplicated(vals))

\* df.set_index(name): a new frame keyed by the column, the column dropped
SetIndex(d, name) ==
  [nrows |-> d.nrows,
   index |-> d.columns[name].vals,
   columns |-> [k \in (DOMAIN d.columns) \ {name} |-> d.columns[k]]]

\* frame[name] as a keyed series: (index label, value) in row order
KeyedSeries(d, name) ==
  [i \in 1..d.nrows |-> [label |-> d.index[i], height |-> d.columns[name].vals[i]]]

\* insertion of one bar into a sequence ordered by height
RECURSIVE SortByHeight(_)
InsertByHeight(b, s) ==
  LET k == Cardinality({i \in 1..Len(s) : s[i].height <= b.height})
  IN SubSeq(s, 1, k) \o <<b>> \o SubSeq(s, k + 1, Len(s))
SortByHeight(s) ==
  IF s = <<>> THEN <<>> ELSE InsertByHeight(s[Len(s)], SortByHeight(SubSeq(s, 1, Len(s) - 1)))

\* Series.plot(kind='bar'): one bar per element, in the order of the series
PlotBarsSorted(series) == SortByHeight(series)
PlotBars(series) == series

NoAxes == [made |-> FALSE, bars |-> <<>>, title |-> "", ylabel |-> ""]

Event(e, a) == [ev |-> e, arg |-> a]

VARIABLES
  df,            \* the caller's DataFrame
  category_col,  \* argument
  sales_col,     \* argument
  pc,            \* the statement the call is at
  lookups,       \* column names looked up so far, in order
  passed,        \* the validation checks that let the call through
  log,           \* entries written by the logging module
  ax,            \* the Axes of the current figure
  shown,         \* number of plt.show() calls
  outcome,       \* "pending", "returned", "ValueError" or "KeyError"
  errmsg,        \* argument of the raised exception
  trace          \* observable events of the call, in order

vars == <<df, category_col, sales_col, pc, lookups, passed, log, ax, shown,
          outcome, errmsg, trace>>

Init ==
  /\ df \in Frames
  /\ category_col = ""
  /\ sales_col = ""
  /\ pc = "idle"
  /\ lookups = <<>>
  /\ passed = {}
  /\ log = <<>>
  /\ ax = NoAxes
  /\ shown = 0
  /\ outcome = "pending"
  /\ errmsg = ""
  /\ trace = <<>>

\* f_2258(df, category_col, sales_col) is entered
Call(c, s) ==
  /\ pc = "idle"
  /\ category_col' = c
  /\ sales_col' = s
  /\ pc' = "line33"
  /\ UNCHANGED <<df, lookups, passed, log, ax, shown, outcome, errmsg, trace>>

\* a failed df[name]: KeyError(name) leaves the function
RaiseKeyError(name) ==
  /\ outcome' = "KeyError"
  /\ errmsg' = name
  /\ trace' = Append(trace, Event("raise", name))
  /\ pc' = "done"

\* line 33: if df.empty or not df[sales_col].dtype.kind in 'biufc'
CheckEmptyNumericLookupFirst ==
  /\ pc = "line33"
  /\ lookups' = Append(lookups, sales_col)
  /\ IF ~HasColumn(df, sales_col)
       THEN RaiseKeyError(sales_col) /\ UNCHANGED passed
       ELSE /\ IF IsEmpty(df) \/ df.columns[sales_col].kind \notin NumericKinds
                 THEN pc' = "line34" /\ UNCHANGED passed
                 ELSE pc' = "line37" /\ passed' = passed \cup {"empty_numeric"}
            /\ UNCHANGED <<outcome, errmsg, trace>>
  /\ UNCHANGED <<df, category_col, sales_col, log, ax, shown>>

CheckEmptyNumeric ==
  /\ pc = "line33"
  /\ IF IsEmpty(df)
       THEN /\ pc' = "line34"
            /\ UNCHANGED <<lookups, passed, outcome, errmsg, trace>>
       ELSE /\ lookups' = Append(lookups, sales_col)
            /\ IF ~HasColumn(df, sales_col)
                 THEN RaiseKeyError(sales_col) /\ UNCHANGED passed
                 ELSE /\ IF df.columns[sales_col].kind \notin NumericKinds
                           THEN pc' = "line34" /\ UNCHANGED passed
                           ELSE pc' = "line37" /\ passed' = passed \cup {"empty_numeric"}
                      /\ UNCHANGED <<outcome, errmsg, trace>>
  /\ UNCHANGED <<df, category_col, sales_col, log, ax, shown>>

\* line 34: logging.error(...)
LogInvalid ==
  /\ pc = "line34"
  /\ log' = Append(log, [level |-> "ERROR", msg |-> InvalidDataMsg])
  /\ trace' = Append(trace, Event("log", InvalidDataMsg))
  /\ pc' = "line35"
  /\ UNCHANGED <<df, category_col, sales_col, lookups, passed, ax, shown, outcome, errmsg>>

\* line 35: raise ValueError(...)
RaiseInvalid ==
  /\ pc = "line35"
  /\ outcome' = "ValueError"
  /\ errmsg' = InvalidDataMsg
  /\ trace' = Append(trace, Event("raise", InvalidDataMsg))
  /\ pc' = "done"
  /\ UNCHANGED <<df, category_col, sales_col, lookups, passed, log, ax, shown>>

\* line 37: if df[category_col].duplicated().any()
CheckDuplicates ==
  /\ pc = "line37"
  /\ lookups' = Append(lookups, category_col)
  /\ IF ~HasColumn(df, category_col)
       THEN RaiseKeyError(category_col) /\ UNCHANGED passed
       ELSE /\ IF HasDuplicates(df.columns[category_col].vals)
                 THEN pc' = "line38" /\ UNCHANGED passed
                 ELSE pc' = "line41" /\ passed' = passed \cup {"duplicates"}
            /\ UNCHANGED <<outcome, errmsg, trace>>
  /\ UNCHANGED <<df, category_col, sales_col, log, ax, shown>>

\* line 38: logging.error(...)
LogDuplicateSkipped ==
  /\ pc = "line38"
  /\ pc' = "line39"
  /\ UNCHANGED <<df, category_col, sales_col, lookups, passed, log, ax, shown,
                 outcome, errmsg, trace>>

LogDuplicate ==
  /\ pc = "line38"
  /\ log' = Append(log, [level |-> "ERROR", msg |-> DuplicateMsg])
  /\ trace' = Append(trace, Event("log", DuplicateMsg))
  /\ pc' = "line39"
  /\ UNCHANGED <<df, category_col, sales_col, lookups, passed, ax, shown, outcome, errmsg>>

\* line 39: raise ValueError(...)
RaiseDuplicate ==
  /\ pc = "line39"
  /\ outcome' = "ValueError"
  /\ errmsg' = DuplicateMsg
  /\ trace' = Append(trace, Event("raise", DuplicateMsg))
  /\ pc' = "done"
  /\ UNCHANGED <<df, category_col, sales_col, lookups, passed, log, ax, shown>>

\* line 41: ax = df.set_index(category_col)[sales_col].plot(kind='bar', title=...)
\* the variant re-keys the caller's frame itself (set_index(..., inplace=True))
BuildChartInplace ==
  /\ pc = "line41"
  /\ LET keyed == SetIndex(df, category_col)
     IN /\ df' = keyed
        /\ lookups' = Append(lookups, sales_col)
        /\ IF ~HasColumn(keyed, sales_col)
             THEN RaiseKeyError(sales_col) /\ UNCHANGED ax
             ELSE /\ ax' = [made |-> TRUE,
                            bars |-> PlotBars(KeyedSeries(keyed, sales_col)),
                            title |-> ChartTitle,
                            ylabel |-> ""]
                  /\ trace' = Append(trace, Event("plot", ChartTitle))
                  /\ pc' = "line42"
                  /\ UNCHANGED <<outcome, errmsg>>
  /\ UNCHANGED <<category_col, sales_col, passed, log, shown>>

BuildChart ==
  /\ pc = "line41"
  /\ LET keyed == SetIndex(df, category_col)
     IN /\ lookups' = Append(lookups, sales_col)
        /\ IF ~HasColumn(keyed, sales_col)
             THEN RaiseKeyError(sales_col) /\ UNCHANGED ax
             ELSE /\ ax' = [made |-> TRUE,
                            bars |-> PlotBars(KeyedSeries(keyed, sales_col)),
                            title |-> ChartTitle,
                            ylabel |-> ""]
                  /\ trace' = Append(trace, Event("plot", ChartTitle))
                  /\ pc' = "line42"
                  /\ UNCHANGED <<outcome, errmsg>>
  /\ UNCHANGED <<df, category_col, sales_col, passed, log, shown>>

\* line 42: plt.ylabel('Sales') labels the current Axes
SetYLabel ==
  /\ pc = "line42"
  /\ ax' = [ax EXCEPT !.ylabel = YLabel]
  /\ trace' = Append(trace, Event("ylabel", YLabel))
  /\ pc' = "line43"
  /\ UNCHANGED <<df, category_col, sales_col, lookups, passed, log, shown, outcome, errmsg>>

\* line 43: plt.show()
Show ==
  /\ pc = "line43"
  /\ shown' = shown + 1
  /\ trace' = Append(trace, Event("show", ""))
  /\ pc' = "line44"
  /\ UNCHANGED <<df, category_col, sales_col, lookups, passed, log, ax, outcome, errmsg>>

\* line 44: return ax
Return ==
  /\ pc = "line44"
  /\ outcome' = "returned"
  /\ trace' = Append(trace, Event("return", ""))
  /\ pc' = "done"
  /\ UNCHANGED <<df, category_col, sales_col, lookups, passed, log, ax, shown, errmsg>>

Next ==
  \/ \E c \in ArgNames, s \in ArgNames : Call(c, s)
  \/ CheckEmptyNumeric
  \/ LogInvalid
  \/ RaiseInvalid
  \/ CheckDuplicates
  \/ LogDuplicate
  \/ RaiseDuplicate
  \/ BuildChart
  \/ SetYLabel
  \/ Show
  \/ Return

Spec == Init /\ [][Next]_vars

\* ----- vocabulary of the properties -----

Done == pc = "done"
Cols == DOMAIN df.columns
BoolIntUintFloatComplex == {"b", "i", "u", "f", "c"}
SalesNumeric == sales_col \in Cols /\ df.columns[sales_col].kind \in BoolIntUintFloatComplex
Repeats(vals) == \E i, j \in 1..Len(vals) : i # j /\ vals[i] = vals[j]
EmptyOrNotNumericText == "DataFrame is empty, lacks sales data, or sales data is not numeric."
DuplicateText == "DataFrame contains duplicate entries in the category column."
FailsWith(kind, text) == outcome = kind /\ errmsg = text
RenderingEvents == {"plot", "ylabel", "show"}
Rendered == ax.made \/ shown > 0 \/ \E i \in 1..Len(trace) : trace[i].ev \in RenderingEvents
FullyRendered ==
  /\ ax.made /\ ax.ylabel = "Sales" /\ shown = 1
  /\ \A e \in RenderingEvents : \E i \in 1..Len(trace) : trace[i].ev = e

C3_DuplicateCategories ==
  (Done /\ df.nrows >= 1 /\ SalesNumeric /\ category_col \in Cols)
  => (Repeats(df.columns[category_col].vals) <=> FailsWith("ValueError", DuplicateText))

C3_Witness ==
  /\ Done /\ df.nrows >= 2 /\ SalesNumeric /\ category_col \in Cols
  /\ category_col # sales_col
  /\ Repeats(df.columns[category_col].vals)
  /\ FailsWith("ValueError", DuplicateText)

\* C4 (as stated): whatever the dataset, a finished call with a category or
\* sales name that is not a column has failed with KeyError.
C4_MissingColumnAlwaysKeyError ==
  (Done /\ (category_col \notin Cols \/ sales_col \notin Cols)) => outcome = "KeyError"

\* C4 (amended): a finished call on a dataset with at least one row and one
\* column has failed with KeyError if the sales name is not a column, or if the
\* sales column exists with a numeric kind and the category name is not a
\* column; in the other missing-column cases (empty dataset, or non-numeric
\* sales with the category name missing) it has failed with ValueError and the
\* empty/non-numeric message.  It has never returned a handle.
C4_MissingColumn ==
  (Done /\ (category_col \notin Cols \/ sales_col \notin Cols))
  => IF df.nrows >= 1 /\ Cols # {} /\ (sales_col \notin Cols \/ SalesNumeric)
       THEN outcome = "KeyError"
       ELSE FailsWith("ValueError", EmptyOrNotNumericText)

C4_Witness ==
  /\ Done /\ df.nrows >= 1 /\ SalesNumeric /\ category_col \notin Cols
  /\ outcome = "KeyError" /\ errmsg = category_col

\* C5: a finished call has written a log entry exactly when it failed with
\* ValueError; then there is exactly one entry, of level ERROR, with the message
\* of the raised error, and it is the event directly before the raise.  A call
\* that returned or failed with KeyError has written none.
C5_LoggedExactlyOnInvalidData ==
  Done =>
    /\ (outcome = "ValueError") <=> (log # <<>>)
    /\ outcome = "ValueError" =>
         /\ Len(log) = 1
         /\ log[1].level = "ERROR"
         /\ log[1].msg = errmsg
         /\ Len(trace) >= 2
         /\ trace[Len(trace)] = [ev |-> "raise", arg |-> errmsg]
         /\ trace[Len(trace) - 1] = [ev |-> "log", arg |-> errmsg]
         /\ Cardinality({i \in 1..Len(trace) : trace[i].ev = "log"}) = 1
    /\ outcome \in {"returned", "KeyError"} =>
         (log = <<>> /\ \A i \in 1..Len(trace) : trace[i].ev # "log")

C5_Witness ==
  /\ Done /\ FailsWith("ValueError", DuplicateText)
  /\ log = <<[level |-> "ERROR", msg |-> DuplicateText]>>

\* C6 (as stated): no rendering step has been performed in a call that ended in
\* an error; rendering steps occur only after both checks have passed; and a
\* finished call in which both checks passed has performed all rendering steps
\* and returned the handle.
C6_NoPartialRendering ==
  /\ (Done /\ outcome \in {"ValueError", "KeyError"}) => ~Rendered
  /\ Rendered => passed = {"empty_numeric", "duplicates"}
  /\ (Done /\ passed = {"empty_numeric", "duplicates"}) => (FullyRendered /\ outcome = "returned")

\* C7: no step of a call changes the caller's dataset (rows, row order, columns,
\* index).
C7_DatasetUnchanged == [][df' = df]_vars

C7_Witness ==
  /\ Done /\ outcome = "returned" /\ df.nrows >= 1
  /\ df.index = [i \in 1..df.nrows |-> i]
  /\ category_col \in Cols

\* the outcome the stated evaluation order gives, the first step being "emptyA"
OrderedOutcome(emptyA) ==
  IF emptyA THEN FailsWith("ValueError", EmptyOrNotNumericText) /\ lookups = <<>>
  ELSE IF sales_col \notin Cols THEN outcome = "KeyError"
  ELSE IF ~SalesNumeric THEN FailsWith("ValueError", EmptyOrNotNumericText)
  ELSE IF category_col \notin Cols THEN outcome = "KeyError"
  ELSE IF Repeats(df.columns[category_col].vals) THEN FailsWith("ValueError", DuplicateText)
  ELSE outcome = "returned"

C8_WitnessBothFaults ==
  /\ Done /\ category_col # sales_col /\ category_col \in Cols /\ sales_col \in Cols
  /\ ~SalesNumeric /\ Repeats(df.columns[category_col].vals)
  /\ FailsWith("ValueError", EmptyOrNotNumericText)

\* C9: after a return, bar i belongs to row i (label: the row's category,
\* height: the row's sales value), the title is "Sales Report by Category", the
\* y-label is "Sales", and the call built the chart, set the y-label, displayed
\* once and returned, in that order.
C9_BarsInRowOrder ==
  (Done /\ outcome = "returned") =>
    /\ Len(ax.bars) = df.nrows
    /\ \A i \in 1..df.nrows :
         /\ ax.bars[i].height = df.columns[sales_col].vals[i]
         /\ ax.bars[i].label = df.columns[category_col].vals[i]
    /\ ax.title = "Sales Report by Category"
    /\ ax.ylabel = "Sales"
    /\ shown = 1
    /\ trace = << [ev |-> "plot", arg |-> "Sales Report by Category"],
                  [ev |-> "ylabel", arg |-> "Sales"],
                  [ev |-> "show", arg |-> ""],
                  [ev |-> "return", arg |-> ""] >>

C9_Witness ==
  /\ Done /\ outcome = "returned" /\ df.nrows >= 2
  /\ df.columns[sales_col].vals[1] > df.columns[sales_col].vals[2]
  /\ ax.bars[1].height > ax.bars[2].height

\* C10 (as stated): a finished call in which both names are columns of the
\* dataset (the same column included) has not failed with KeyError.
C10_KeyErrorOnlyWhenAbsent ==
  (Done /\ category_col \in Cols /\ sales_col \in Cols) => outcome # "KeyError"

====
